---- MODULE Spec2Model ----
(***************************************************************************)
(* Payment transaction lifecycle of the course platform:                   *)
(*   supabase/functions/create-payment/index.ts   (createIntent)           *)
(*   supabase/functions/payment-webhook/index.ts  (Midtrans notification,  *)
(*                                   and the certificate request handler)  *)
(* Text values are sequences of string tokens, so that the template        *)
(* literals of the source are concatenations (\o) and substring is SubSeq. *)
(***************************************************************************)
EXTENDS Integers, Sequences, FiniteSets, TLC

\* ------------------------------------------------------------------ bounds
\* Rows the Payment Store holds when the webhook specifications start.
MaxIntents == 2
\* Last value of the millisecond clock Date.now() in the createIntent specification.
MaxTime == 1

VARIABLES
  serverKey,    \* Deno.env MIDTRANS_SERVER_KEY (<<>> when not configured)
  now,          \* Date.now()
  payments,     \* table payments: sequence of rows, row id = index
  enrollments,  \* table enrollments: sequence of rows
  charges,      \* charge requests the Midtrans API has received
  cp,           \* create-payment requests in flight: locals and position
  wh,           \* payment-webhook requests in flight: locals and position
  redelivered,  \* the notification the gateway delivers twice (duplicate-delivery runs)
  certificates, \* table certificates: sequence of rows
  ct            \* certificate requests in flight: locals and position

vars ==
  <<serverKey, now, payments, enrollments, charges, cp, wh, redelivered, certificates, ct>>

\* ------------------------------------------------------------ text helpers
Null == <<>>

DigitTokens == <<"0", "1", "2", "3", "4", "5", "6", "7", "8", "9">>

RECURSIVE Dec(_)
\* Decimal rendering of a non-negative integer, as a template literal renders it.
Dec(n) == IF n < 10 THEN <<DigitTokens[n + 1]>>
          ELSE Dec(n \div 10) \o <<DigitTokens[(n % 10) + 1]>>

\* String.prototype.substring(0, k)
Substring0(s, k) == SubSeq(s, 1, IF Len(s) < k THEN Len(s) ELSE k)

\* ------------------------------------------------------ users and courses
UserIdPrefix == <<"a", "b", "c", "d", "e", "f", "0", "1">>
\* Two accounts whose ids share their first 8 characters.
User1 == [id |-> UserIdPrefix \o <<"-", "1">>, email |-> "u1@example.org"]
User2 == [id |-> UserIdPrefix \o <<"-", "2">>, email |-> "u2@example.org"]
Users == {User1, User2}

CoursePaid == [id |-> "course-paid", price |-> 2, is_free |-> FALSE]
CourseFree == [id |-> "course-free", price |-> 0, is_free |-> TRUE]
\* table courses
Courses == {CoursePaid, CourseFree}

\* ------------------------------------------------------------ order ids
\* `ORDER-${Date.now()}-${user.id.substring(0, 8)}`
OrderIdOf(t, userId) == <<"ORDER-">> \o Dec(t) \o <<"-">> \o Substring0(userId, 8)

\* ------------------------------------------------------------- responses
Response(status, body) == [status |-> status, body |-> body]
NoResp == Response(0, "")
SuccessBody == "success"

\* ---------------------------------------------------------- Payment Store
NoPayment ==
  [id |-> 0, user_id |-> Null, course_id |-> "", amount |-> 0,
   midtrans_order_id |-> Null, status |-> "",
   midtrans_transaction_id |-> Null, payment_type |-> ""]

\* Row numbers whose midtrans_order_id equals orderId.
RowsByOrderId(table, orderId) ==
  {i \in DOMAIN table : table[i].midtrans_order_id = orderId}

\* .maybeSingle() in place of .single(): no matching row is no error.
PaymentsUpdateStatus_MaybeSingle(table, orderId, status) ==
  LET hit == RowsByOrderId(table, orderId) IN
  IF hit = {}
  THEN [error |-> FALSE, data |-> NoPayment, table |-> table]
  ELSE LET i == CHOOSE j \in hit : TRUE
           row == [table[i] EXCEPT !.status = status]
       IN [error |-> FALSE, data |-> row, table |-> [table EXCEPT ![i] = row]]

\* .update({status}).eq('midtrans_order_id', orderId).select().single():
\* the object form answers with an error, and changes nothing, unless exactly
\* one row matches.
PaymentsUpdateStatus(table, orderId, status) ==
  LET hit == RowsByOrderId(table, orderId) IN
  IF Cardinality(hit) # 1
  THEN [error |-> TRUE, data |-> NoPayment, table |-> table]
  ELSE LET i == CHOOSE j \in hit : TRUE
           row == [table[i] EXCEPT !.status = status]
       IN [error |-> FALSE, data |-> row, table |-> [table EXCEPT ![i] = row]]

\* --------------------------------------------------------- Enrollments
EnrollmentRows(table, userId, courseId) ==
  {i \in DOMAIN table : table[i].user_id = userId /\ table[i].course_id = courseId}

\* insert into enrollments, under the table's uniqueness constraint on
\* (user_id, course_id): a second row for the pair is refused with a
\* duplicate-key error.
EnrollmentsInsert(table, row) ==
  IF EnrollmentRows(table, row.user_id, row.course_id) # {}
  THEN [error |-> "duplicate key value violates unique constraint", table |-> table]
  ELSE [error |-> "", table |-> Append(table, row)]

\* ------------------------------------------------------ Signature Verifier
\* SHA-512 rendered as lowercase hex, modelled as a collision-free digest: the
\* digest of a text is the text under a tag no input carries.
Sha512Hex(s) == <<"sha512:">> \o s

\* The comparison of line 24 inverted.
verifyMidtransSignature_Inverted(orderId, statusCode, grossAmount, key, signatureKey) ==
  Sha512Hex(orderId \o statusCode \o grossAmount \o key) # signatureKey

verifyMidtransSignature(orderId, statusCode, grossAmount, key, signatureKey) ==
  LET signatureString == orderId \o statusCode \o grossAmount \o key
      calculatedSignature == Sha512Hex(signatureString)
  IN calculatedSignature = signatureKey

\* ------------------------------------------------------- status mapping
\* 'settlement' mapped like an unknown status.
PaymentStatusOf_NoSettlement(transactionStatus, fraudStatus) ==
  IF transactionStatus = "capture"
  THEN (IF fraudStatus = "accept" THEN "settlement" ELSE "pending")
  ELSE IF transactionStatus \in {"cancel", "deny", "expire"} THEN "failed"
  ELSE "pending"

\* 'expire' missing from the list of line 89.
PaymentStatusOf_NoExpire(transactionStatus, fraudStatus) ==
  IF transactionStatus = "capture"
  THEN (IF fraudStatus = "accept" THEN "settlement" ELSE "pending")
  ELSE IF transactionStatus = "settlement" THEN "settlement"
  ELSE IF transactionStatus \in {"cancel", "deny"} THEN "failed"
  ELSE "pending"

\* 'capture' settled whatever the fraud status.
PaymentStatusOf_AnyCapture(transactionStatus, fraudStatus) ==
  IF transactionStatus \in {"capture", "settlement"} THEN "settlement"
  ELSE IF transactionStatus \in {"cancel", "deny", "expire"} THEN "failed"
  ELSE "pending"

PaymentStatusOf(transactionStatus, fraudStatus) ==
  IF transactionStatus = "capture"
  THEN (IF fraudStatus = "accept" THEN "settlement" ELSE "pending")
  ELSE IF transactionStatus = "settlement" THEN "settlement"
  ELSE IF transactionStatus \in {"cancel", "deny", "expire"} THEN "failed"
  ELSE "pending"

\* --------------------------------------------------------- notifications
ServerSecret == <<"SK-", "live">>
OtherSecret == <<"SK-", "forged">>

\* What the gateway answers to an accepted charge.
TransactionIdOf(orderId) == <<"TX-">> \o Tail(orderId)

\* The store the webhook specifications start from: row i is the payment a
\* completed create-payment call for the paid course at millisecond i-1 leaves
\* behind. Rows 1 and 2 are two purchases by the same user.
IntentUser(i) == IF i <= 2 THEN User1 ELSE User2
IntentRow(i) ==
  [id |-> i, user_id |-> IntentUser(i).id, course_id |-> CoursePaid.id,
   amount |-> CoursePaid.price,
   midtrans_order_id |-> OrderIdOf(i - 1, IntentUser(i).id), status |-> "pending",
   midtrans_transaction_id |-> TransactionIdOf(OrderIdOf(i - 1, IntentUser(i).id)),
   payment_type |-> "gopay"]
StoreOf(k) == [i \in 1..k |-> IntentRow(i)]

KnownOrderIds == {IntentRow(i).midtrans_order_id : i \in 1..MaxIntents}
UnknownOrderId == OrderIdOf(MaxIntents, User1.id)
OrderIds == KnownOrderIds \cup {UnknownOrderId}
StatusCodes == {<<"200">>}
GrossAmounts == {<<"2", ".00">>, <<"1", ".00">>}
TransactionStatuses == {"capture", "settlement", "cancel", "deny", "expire", "pending"}
FraudStatuses == {"accept", "challenge"}

\* What a sender can put in signature_key: nothing, the digest under the
\* server secret, a digest under another secret, or the genuine digest of a
\* notification for another order (a replayed signature).
SignatureKeys(o, s, g) ==
  {Null, Sha512Hex(o \o s \o g \o ServerSecret), Sha512Hex(o \o s \o g \o OtherSecret)}
    \cup {Sha512Hex(o2 \o s \o g \o ServerSecret) : o2 \in OrderIds \ {o}}

Notifications ==
  UNION { UNION { UNION {
    {[order_id |-> o, status_code |-> s, gross_amount |-> g, signature_key |-> k,
      transaction_status |-> t, fraud_status |-> f]
       : t \in TransactionStatuses, f \in FraudStatuses, k \in SignatureKeys(o, s, g)}
    : g \in GrossAmounts} : s \in StatusCodes} : o \in OrderIds}

NoNotification ==
  [order_id |-> Null, status_code |-> Null, gross_amount |-> Null, signature_key |-> Null,
   transaction_status |-> "", fraud_status |-> ""]

\* --------------------------------------------------------- payment-webhook
Handlers == {"h1", "h2"}

WhIdle ==
  [pc |-> "idle", notification |-> NoNotification, orderId |-> Null,
   transactionStatus |-> "", fraudStatus |-> "", paymentStatus |-> "",
   payment |-> NoPayment, resp |-> NoResp]

WhDone(l, status, body) == [l EXCEPT !.pc = "done", !.resp = Response(status, body)]

\* Line 38: the request body is read.
WhReceive(h, n) ==
  /\ wh[h].pc = "idle"
  /\ wh' = [wh EXCEPT ![h] = [WhIdle EXCEPT !.pc = "verify", !.notification = n]]
  /\ UNCHANGED <<serverKey, now, payments, enrollments, charges, cp, redelivered,
               certificates, ct>>

\* The message of the SyntaxError that req.json() throws on a body that is no
\* JSON text.
JsonSyntaxErrorMessage == "Unexpected end of JSON input"

\* Lines 38 and 126-133: the body is no JSON text; req.json() throws and the
\* catch block answers 400 with the message of the error.
WhMalformed(h) ==
  /\ wh[h].pc = "idle"
  /\ wh' = [wh EXCEPT ![h] = WhDone(WhIdle, 400, JsonSyntaxErrorMessage)]
  /\ UNCHANGED <<serverKey, now, payments, enrollments, charges, cp, redelivered,
               certificates, ct>>

\* Verification skipped when no server key is configured.
WhVerify_SkipWithoutKey(h) ==
  /\ wh[h].pc = "verify"
  /\ LET n == wh[h].notification IN
     wh' = [wh EXCEPT ![h] =
       IF serverKey # Null /\ n.signature_key = Null
       THEN WhDone(wh[h], 401, "Invalid request")
       ELSE IF serverKey # Null
               /\ ~verifyMidtransSignature(n.order_id, n.status_code, n.gross_amount,
                                           serverKey, n.signature_key)
       THEN WhDone(wh[h], 401, "Invalid signature")
       ELSE [wh[h] EXCEPT !.pc = "update",
                          !.orderId = n.order_id,
                          !.transactionStatus = n.transaction_status,
                          !.fraudStatus = n.fraud_status,
                          !.paymentStatus =
                             PaymentStatusOf(n.transaction_status, n.fraud_status)]]
  /\ UNCHANGED <<serverKey, now, payments, enrollments, charges, cp, redelivered,
               certificates, ct>>

\* Lines 41-91: check the server key, the presence of signature_key and the
\* signature, then map the gateway status.
WhVerify(h) ==
  /\ wh[h].pc = "verify"
  /\ LET n == wh[h].notification IN
     wh' = [wh EXCEPT ![h] =
       IF serverKey = Null
       THEN WhDone(wh[h], 500, "Server configuration error")
       ELSE IF n.signature_key = Null
       THEN WhDone(wh[h], 401, "Invalid request")
       ELSE IF ~verifyMidtransSignature(n.order_id, n.status_code, n.gross_amount,
                                        serverKey, n.signature_key)
       THEN WhDone(wh[h], 401, "Invalid signature")
       ELSE [wh[h] EXCEPT !.pc = "update",
                          !.orderId = n.order_id,
                          !.transactionStatus = n.transaction_status,
                          !.fraudStatus = n.fraud_status,
                          !.paymentStatus =
                             PaymentStatusOf(n.transaction_status, n.fraud_status)]]
  /\ UNCHANGED <<serverKey, now, payments, enrollments, charges, cp, redelivered,
               certificates, ct>>

\* The notification's gross_amount compared with the stored amount before the
\* update.
WhUpdate_AmountChecked(h) ==
  /\ wh[h].pc = "update"
  /\ LET hit == RowsByOrderId(payments, wh[h].orderId)
         differs == \E i \in hit :
                      wh[h].notification.gross_amount # Dec(payments[i].amount) \o <<".00">>
         r == IF differs
              THEN [error |-> TRUE, data |-> NoPayment, table |-> payments]
              ELSE PaymentsUpdateStatus(payments, wh[h].orderId, wh[h].paymentStatus)
     IN
     /\ payments' = r.table
     /\ wh' = [wh EXCEPT ![h] =
          IF r.error THEN WhDone(wh[h], 400, "Failed to update payment")
          ELSE IF wh[h].paymentStatus = "settlement"
          THEN [wh[h] EXCEPT !.pc = "enroll", !.payment = r.data]
          ELSE WhDone([wh[h] EXCEPT !.payment = r.data], 200, SuccessBody)]
  /\ UNCHANGED <<serverKey, now, enrollments, charges, cp, redelivered,
               certificates, ct>>

\* A settled or failed payment kept as it is: the status is written only
\* over 'pending'.
WhUpdate_KeepTerminal(h) ==
  /\ wh[h].pc = "update"
  /\ LET hit == RowsByOrderId(payments, wh[h].orderId)
         terminal == \E i \in hit : payments[i].status \in {"settlement", "failed"}
         r == IF terminal
              THEN PaymentsUpdateStatus(payments, wh[h].orderId,
                                        payments[CHOOSE i \in hit : TRUE].status)
              ELSE PaymentsUpdateStatus(payments, wh[h].orderId, wh[h].paymentStatus)
     IN
     /\ payments' = r.table
     /\ wh' = [wh EXCEPT ![h] =
          IF r.error THEN WhDone(wh[h], 400, "Failed to update payment")
          ELSE IF wh[h].paymentStatus = "settlement"
          THEN [wh[h] EXCEPT !.pc = "enroll", !.payment = r.data]
          ELSE WhDone([wh[h] EXCEPT !.payment = r.data], 200, SuccessBody)]
  /\ UNCHANGED <<serverKey, now, enrollments, charges, cp, redelivered,
                 certificates, ct>>

\* The update restricted to payments that are still pending.
WhUpdate_PendingOnly(h) ==
  /\ wh[h].pc = "update"
  /\ LET hit == {i \in RowsByOrderId(payments, wh[h].orderId) :
                  payments[i].status = "pending"}
         r == IF Cardinality(hit) # 1
              THEN [error |-> TRUE, data |-> NoPayment, table |-> payments]
              ELSE PaymentsUpdateStatus(payments, wh[h].orderId, wh[h].paymentStatus)
     IN
     /\ payments' = r.table
     /\ wh' = [wh EXCEPT ![h] =
          IF r.error THEN WhDone(wh[h], 400, "Failed to update payment")
          ELSE IF wh[h].paymentStatus = "settlement"
          THEN [wh[h] EXCEPT !.pc = "enroll", !.payment = r.data]
          ELSE WhDone([wh[h] EXCEPT !.payment = r.data], 200, SuccessBody)]
  /\ UNCHANGED <<serverKey, now, enrollments, charges, cp, redelivered,
               certificates, ct>>

\* Lines 93-104 and the branch of line 107: update the payment's status; an
\* update error is thrown and answered by the catch block (lines 126-133).
WhUpdate(h) ==
  /\ wh[h].pc = "update"
  /\ LET r == PaymentsUpdateStatus(payments, wh[h].orderId, wh[h].paymentStatus) IN
     /\ payments' = r.table
     /\ wh' = [wh EXCEPT ![h] =
          IF r.error THEN WhDone(wh[h], 400, "Failed to update payment")
          ELSE IF wh[h].paymentStatus = "settlement"
          THEN [wh[h] EXCEPT !.pc = "enroll", !.payment = r.data]
          ELSE WhDone([wh[h] EXCEPT !.payment = r.data], 200, SuccessBody)]
  /\ UNCHANGED <<serverKey, now, enrollments, charges, cp, redelivered,
               certificates, ct>>

\* Every insert error thrown, the duplicate-key error included.
WhEnroll_Strict(h) ==
  /\ wh[h].pc = "enroll"
  /\ LET r == EnrollmentsInsert(enrollments,
                [user_id |-> wh[h].payment.user_id,
                 course_id |-> wh[h].payment.course_id,
                 progress |-> 0]) IN
     /\ enrollments' = r.table
     /\ wh' = [wh EXCEPT ![h] =
          IF r.error # "" THEN WhDone(wh[h], 400, "Failed to create enrollment")
          ELSE WhDone(wh[h], 200, SuccessBody)]
  /\ UNCHANGED <<serverKey, now, payments, charges, cp, redelivered,
               certificates, ct>>

\* Lines 107-124: insert the enrollment; an insert error is logged at most,
\* and the request is answered with success.
WhEnroll(h) ==
  /\ wh[h].pc = "enroll"
  /\ LET r == EnrollmentsInsert(enrollments,
                [user_id |-> wh[h].payment.user_id,
                 course_id |-> wh[h].payment.course_id,
                 progress |-> 0]) IN
     /\ enrollments' = r.table
     /\ wh' = [wh EXCEPT ![h] = WhDone(wh[h], 200, SuccessBody)]
  /\ UNCHANGED <<serverKey, now, payments, charges, cp, redelivered,
               certificates, ct>>

\* Lines 107-124 when the store refuses the insert with an error that is no
\* duplicate-key violation (connection lost, statement timeout): nothing is
\* inserted, the error is logged (lines 116-118), and the request is answered
\* with success.
WhEnrollRefused(h) ==
  /\ wh[h].pc = "enroll"
  /\ wh' = [wh EXCEPT ![h] = WhDone(wh[h], 200, SuccessBody)]
  /\ UNCHANGED <<serverKey, now, payments, enrollments, charges, cp, redelivered,
                 certificates, ct>>

\* Between line 99 and line 109: the worker is terminated after the status
\* update has been written and before the enrollment insert is sent; it sends
\* no answer and handles nothing further.
WhStop(h) ==
  /\ wh[h].pc = "enroll"
  /\ wh' = [wh EXCEPT ![h].pc = "stopped"]
  /\ UNCHANGED <<serverKey, now, payments, enrollments, charges, cp, redelivered,
               certificates, ct>>

\* The response has been sent; the worker takes the next request.
WhReturn(h) ==
  /\ wh[h].pc = "done"
  /\ wh' = [wh EXCEPT ![h] = WhIdle]
  /\ UNCHANGED <<serverKey, now, payments, enrollments, charges, cp, redelivered,
               certificates, ct>>

\* --------------------------------------------------------- create-payment
Callers == {"p1"}

\* Authorization headers: absent, a token of each account, a token that
\* resolves to no user.
TokenOf(user) == <<"token:">> \o user.id
BadToken == <<"token:", "expired">>
AuthHeaders == {Null} \cup {<<"Bearer ">> \o t : t \in {TokenOf(u) : u \in Users} \cup {BadToken}}

\* authHeader.replace('Bearer ', '')
StripBearer(header) ==
  IF Len(header) > 0 /\ header[1] = "Bearer " THEN Tail(header) ELSE header

\* supabase.auth.getUser(token): the users whose token it is.
GetUser(token) == {u \in Users : TokenOf(u) = token}

\* Course ids a request can carry: the two courses, a well-formed id of no
\* course, and a text that is no UUID.
GoneCourseId == "course-gone"
MalformedCourseId == "not-a-uuid"
CourseIds == {c.id : c \in Courses} \cup {GoneCourseId, MalformedCourseId}
Amounts == {0, 1, 2}
\* Every credential with the paid course at its price, every course id and
\* amount with the first account's credential, and every body that fails a
\* check with a credential that resolves to no user.
Requests ==
  [auth : AuthHeaders, courseId : {CoursePaid.id}, amount : {CoursePaid.price}]
    \cup [auth : {<<"Bearer ">> \o TokenOf(User1)}, courseId : CourseIds, amount : Amounts]
    \cup [auth : {Null, <<"Bearer ">> \o BadToken},
          courseId : {GoneCourseId, MalformedCourseId}, amount : {0, CoursePaid.price}]
NoRequest == [auth |-> Null, courseId |-> "", amount |-> 0]

\* z.string().uuid()
IsUuid(text) == text # MalformedCourseId

\* paymentRequestSchema.safeParse: the message of the first violation, "" when
\* the body is valid.
FirstSchemaViolation(body) ==
  IF ~IsUuid(body.courseId) THEN "Invalid course ID format"
  ELSE IF ~(body.amount > 0) THEN "Amount must be positive"
  ELSE IF ~(body.amount >= 1) THEN "Amount must be at least 1"
  ELSE ""

DefaultUserMessage ==
  "An unexpected error occurred. Please contact support if the issue persists."

getUserMessage(message) ==
  CASE message = "Missing authorization header" -> "Authentication required. Please log in."
    [] message = "Unauthorized" -> "Authentication required. Please log in."
    [] message = "Missing required fields" -> "Invalid payment request. Please try again."
    [] message = "Course not found" ->
         "The selected course does not exist or is not available."
    [] message = "Price mismatch" -> "The payment amount does not match the course price."
    [] message = "Failed to create payment record" ->
         "Payment processing is temporarily unavailable. Please try again later."
    [] message = "Failed to create Midtrans transaction" ->
         "Payment provider is temporarily unavailable. Please try again later."
    [] OTHER -> DefaultUserMessage

\* table profiles: the second account has no full_name.
FullNameOf(userId) == IF userId = User1.id THEN "Ada" ELSE ""

\* insert into payments, under the table's uniqueness constraint on
\* midtrans_order_id; the row id is generated by the store.
PaymentsInsert(table, row) ==
  IF RowsByOrderId(table, row.midtrans_order_id) # {}
  THEN [error |-> TRUE, data |-> NoPayment, table |-> table]
  ELSE LET stored == [row EXCEPT !.id = Len(table) + 1] IN
       [error |-> FALSE, data |-> stored, table |-> Append(table, stored)]

\* The update writing status 'pending' along with the transaction.
PaymentsEnrich_ResetStatus(table, id, transactionId, paymentType) ==
  [i \in DOMAIN table |->
     IF table[i].id = id
     THEN [table[i] EXCEPT !.midtrans_transaction_id = transactionId,
                           !.payment_type = paymentType,
                           !.status = "pending"]
     ELSE table[i]]

\* .update({midtrans_transaction_id, payment_type}).eq('id', id)
PaymentsEnrich(table, id, transactionId, paymentType) ==
  [i \in DOMAIN table |->
     IF table[i].id = id
     THEN [table[i] EXCEPT !.midtrans_transaction_id = transactionId,
                           !.payment_type = paymentType]
     ELSE table[i]]

CpIdle ==
  [pc |-> "idle", request |-> NoRequest, userId |-> Null, courseId |-> "", amount |-> 0,
   orderId |-> Null, paymentId |-> 0, transactionId |-> Null, resp |-> NoResp]

CpDone(l, status, body) == [l EXCEPT !.pc = "done", !.resp = Response(status, body)]

\* throw new Error(message), answered by the catch block (lines 169-182).
CpThrow(l, message) == CpDone(l, 400, getUserMessage(message))

\* The request arrives.
CpReceive(c, req) ==
  /\ cp[c].pc = "idle"
  /\ cp' = [cp EXCEPT ![c] = [CpIdle EXCEPT !.pc = "check", !.request = req]]
  /\ UNCHANGED <<serverKey, now, payments, enrollments, charges, wh, redelivered,
               certificates, ct>>

\* Only an amount above the price refused.
PriceMismatch_OverOnly(course, amount) == ~course.is_free /\ course.price < amount

\* The price check of line 82.
PriceMismatch(course, amount) == ~course.is_free /\ course.price # amount

\* The body validated and the course looked up before the credential is
\* resolved.
CpCheck_ValidateFirst(c) ==
  /\ cp[c].pc = "check"
  /\ LET req == cp[c].request
         users == GetUser(StripBearer(req.auth))
         violation == FirstSchemaViolation(req)
         found == {k \in Courses : k.id = req.courseId}
     IN cp' = [cp EXCEPT ![c] =
          IF violation # "" THEN CpDone(cp[c], 400, violation)
          ELSE IF found = {} THEN CpThrow(cp[c], "Course not found")
          ELSE IF req.auth = Null THEN CpThrow(cp[c], "Missing authorization header")
          ELSE IF users = {} THEN CpThrow(cp[c], "Unauthorized")
          ELSE IF PriceMismatch(CHOOSE k \in found : TRUE, req.amount)
               THEN CpThrow(cp[c], "Price mismatch")
          ELSE LET user == CHOOSE u \in users : TRUE IN
               [cp[c] EXCEPT !.pc = "insert",
                             !.userId = user.id,
                             !.courseId = req.courseId,
                             !.amount = req.amount,
                             !.orderId = OrderIdOf(now, user.id)]]
  /\ UNCHANGED <<serverKey, now, payments, enrollments, charges, wh, redelivered,
               certificates, ct>>

\* Lines 42-87: credential, schema, course lookup, price check, order id.
CpCheck(c) ==
  /\ cp[c].pc = "check"
  /\ LET req == cp[c].request
         users == GetUser(StripBearer(req.auth))
         violation == FirstSchemaViolation(req)
         found == {k \in Courses : k.id = req.courseId}
     IN cp' = [cp EXCEPT ![c] =
          IF req.auth = Null THEN CpThrow(cp[c], "Missing authorization header")
          ELSE IF users = {} THEN CpThrow(cp[c], "Unauthorized")
          ELSE IF violation # "" THEN CpDone(cp[c], 400, violation)
          ELSE IF found = {} THEN CpThrow(cp[c], "Course not found")
          ELSE IF PriceMismatch(CHOOSE k \in found : TRUE, req.amount)
               THEN CpThrow(cp[c], "Price mismatch")
          ELSE LET user == CHOOSE u \in users : TRUE IN
               [cp[c] EXCEPT !.pc = "insert",
                             !.userId = user.id,
                             !.courseId = req.courseId,
                             !.amount = req.amount,
                             !.orderId = OrderIdOf(now, user.id)]]
  /\ UNCHANGED <<serverKey, now, payments, enrollments, charges, wh, redelivered,
               certificates, ct>>

\* The payment row not written before the charge request is sent.
CpInsert_NotPersisted(c) ==
  /\ cp[c].pc = "insert"
  /\ payments' = payments
  /\ cp' = [cp EXCEPT ![c] = [cp[c] EXCEPT !.pc = "charge", !.paymentId = Len(payments) + 1]]
  /\ UNCHANGED <<serverKey, now, enrollments, charges, wh, redelivered,
                 certificates, ct>>

\* Lines 89-105: persist the pending payment.
CpInsert(c) ==
  /\ cp[c].pc = "insert"
  /\ LET r == PaymentsInsert(payments,
                [NoPayment EXCEPT !.user_id = cp[c].userId,
                                  !.course_id = cp[c].courseId,
                                  !.amount = cp[c].amount,
                                  !.midtrans_order_id = cp[c].orderId,
                                  !.status = "pending"]) IN
     /\ payments' = r.table
     /\ cp' = [cp EXCEPT ![c] =
          IF r.error THEN CpThrow(cp[c], "Failed to create payment record")
          ELSE [cp[c] EXCEPT !.pc = "charge", !.paymentId = r.data.id]]
  /\ UNCHANGED <<serverKey, now, enrollments, charges, wh, redelivered,
               certificates, ct>>

\* A rejected charge request sent a second time.
CpCharge_Retry(c) ==
  /\ cp[c].pc = "charge"
  /\ \E outcome \in {"accepted", "rejected", "unreachable"} :
       LET payload == [order_id |-> cp[c].orderId, gross_amount |-> cp[c].amount,
                       first_name |-> IF FullNameOf(cp[c].userId) = "" THEN "User"
                                      ELSE FullNameOf(cp[c].userId),
                       accepted |-> outcome = "accepted"] IN
       /\ charges' = CASE outcome = "unreachable" -> charges
                       [] outcome = "rejected" -> Append(Append(charges, payload), payload)
                       [] OTHER -> Append(charges, payload)
       /\ cp' = [cp EXCEPT ![c] =
            CASE outcome = "accepted" ->
                   [cp[c] EXCEPT !.pc = "enrich",
                                 !.transactionId = TransactionIdOf(cp[c].orderId)]
              [] outcome = "rejected" ->
                   CpThrow(cp[c], "Failed to create Midtrans transaction")
              [] OTHER -> CpThrow(cp[c], "error sending request")]
  /\ UNCHANGED <<serverKey, now, payments, enrollments, wh, redelivered,
               certificates, ct>>

\* Lines 107-148: one POST to the Midtrans charge endpoint. The gateway
\* accepts it, answers with a non-2xx status, or the request fails in transit
\* and fetch throws.
CpCharge(c) ==
  /\ cp[c].pc = "charge"
  /\ \E outcome \in {"accepted", "rejected", "unreachable"} :
       LET payload == [order_id |-> cp[c].orderId, gross_amount |-> cp[c].amount,
                       first_name |-> IF FullNameOf(cp[c].userId) = "" THEN "User"
                                      ELSE FullNameOf(cp[c].userId),
                       accepted |-> outcome = "accepted"] IN
       /\ charges' = IF outcome = "unreachable" THEN charges
                     ELSE Append(charges, payload)
       /\ cp' = [cp EXCEPT ![c] =
            CASE outcome = "accepted" ->
                   [cp[c] EXCEPT !.pc = "enrich",
                                 !.transactionId = TransactionIdOf(cp[c].orderId)]
              [] outcome = "rejected" ->
                   CpThrow(cp[c], "Failed to create Midtrans transaction")
              [] OTHER -> CpThrow(cp[c], "error sending request")]
  /\ UNCHANGED <<serverKey, now, payments, enrollments, wh, redelivered,
               certificates, ct>>

\* Line 150: the payment URL is the gateway's QR-code action of the
\* transaction.
PaymentUrlOf(transactionId) == <<"https://api.midtrans.com/v2/qr/">> \o transactionId

\* Lines 159-165: the body of the success answer, from the handler's locals.
CpSuccessBody(l) ==
  [success |-> TRUE, payment_url |-> PaymentUrlOf(l.transactionId),
   order_id |-> l.orderId, transaction_id |-> l.transactionId]

\* A failed update of the payment thrown.
CpEnrich_Checked(c) ==
  /\ cp[c].pc = "enrich"
  /\ \E stored \in BOOLEAN :
       /\ payments' = IF stored
                      THEN PaymentsEnrich(payments, cp[c].paymentId, cp[c].transactionId,
                                          "gopay")
                      ELSE payments
       /\ cp' = [cp EXCEPT ![c] =
            IF stored THEN CpDone(cp[c], 200, SuccessBody)
            ELSE CpThrow(cp[c], "Failed to update payment record")]
  /\ UNCHANGED <<serverKey, now, enrollments, charges, wh, redelivered,
               certificates, ct>>

\* Lines 150-167: record the transaction on the payment; the result of the
\* update is not inspected, and the call answers with success either way.
CpEnrich(c) ==
  /\ cp[c].pc = "enrich"
  /\ \E stored \in BOOLEAN :
       payments' = IF stored
                   THEN PaymentsEnrich(payments, cp[c].paymentId, cp[c].transactionId, "gopay")
                   ELSE payments
  /\ cp' = [cp EXCEPT ![c] = CpDone(cp[c], 200, SuccessBody)]
  /\ UNCHANGED <<serverKey, now, enrollments, charges, wh, redelivered,
               certificates, ct>>

\* The response has been sent.
CpReturn(c) ==
  /\ cp[c].pc = "done"
  /\ cp' = [cp EXCEPT ![c] = CpIdle]
  /\ UNCHANGED <<serverKey, now, payments, enrollments, charges, wh, redelivered,
               certificates, ct>>

\* The millisecond clock advances.
Tick ==
  /\ now < MaxTime
  /\ now' = now + 1
  /\ UNCHANGED <<serverKey, payments, enrollments, charges, cp, wh, redelivered,
               certificates, ct>>

\* ---------------------------------------------------- generate-certificate
\* (payment-webhook/index.ts, lines 136-325)
\* Certificates the store holds at most.
MaxCertificates == 3

CertCallers == {"r1", "r2"}

\* Completion percentages an enrollment can carry.
Progresses == {0, 99, 100}

\* Requests: every credential with the paid course, a well-formed id of no
\* course, and a text that is no UUID.
CertRequests ==
  [auth : AuthHeaders, courseId : {CoursePaid.id, GoneCourseId, MalformedCourseId}]
NoCertRequest == [auth |-> Null, courseId |-> ""]

\* getUserMessage of the certificate handler (lines 151-163).
CtUserMessage(message) ==
  CASE message = "Missing authorization header" -> "Authentication required. Please log in."
    [] message = "Unauthorized" -> "Authentication required. Please log in."
    [] message = "Missing course ID" -> "Invalid request. Please try again."
    [] message = "Course not found" -> "The selected course does not exist."
    [] message = "Enrollment not found" ->
         "Unable to generate certificate. Please ensure you are enrolled in this course."
    [] message = "Course not completed yet" ->
         "Certificate requires 100% course completion. Please finish all course materials."
    [] message = "Failed to create certificate" ->
         "Certificate generation is temporarily unavailable. Please try again later."
    [] OTHER -> DefaultUserMessage

CertificateRows(table, userId, courseId) ==
  {i \in DOMAIN table : table[i].user_id = userId /\ table[i].course_id = courseId}

\* rpc generate_certificate_number: a number no stored certificate carries.
CertificateNumberOf(table) == <<"CERT-">> \o Dec(Len(table) + 1)

CtIdle ==
  [pc |-> "idle", request |-> NoCertRequest, userId |-> Null, courseId |-> "",
   resp |-> NoResp]

CtDone(l, status, body) == [l EXCEPT !.pc = "done", !.resp = Response(status, body)]

\* throw new Error(message), answered by the catch block (lines 311-324).
CtThrow(l, message) == CtDone(l, 400, CtUserMessage(message))

\* The request arrives.
CtReceive(r, req) ==
  /\ ct[r].pc = "idle"
  /\ ct' = [ct EXCEPT ![r] = [CtIdle EXCEPT !.pc = "check", !.request = req]]
  /\ UNCHANGED <<serverKey, now, payments, enrollments, charges, cp, wh, redelivered,
                 certificates>>

\* Lines 176-213: credential, schema, course lookup.
CtCheck(r) ==
  /\ ct[r].pc = "check"
  /\ LET req == ct[r].request
         users == GetUser(StripBearer(req.auth))
         found == {k \in Courses : k.id = req.courseId}
     IN ct' = [ct EXCEPT ![r] =
          IF req.auth = Null THEN CtThrow(ct[r], "Missing authorization header")
          ELSE IF users = {} THEN CtThrow(ct[r], "Unauthorized")
          ELSE IF ~IsUuid(req.courseId) THEN CtDone(ct[r], 400, "Invalid course ID format")
          ELSE IF found = {} THEN CtThrow(ct[r], "Course not found")
          ELSE [ct[r] EXCEPT !.pc = "enrollment",
                             !.userId = (CHOOSE u \in users : TRUE).id,
                             !.courseId = req.courseId]]
  /\ UNCHANGED <<serverKey, now, payments, enrollments, charges, cp, wh, redelivered,
                 certificates>>

\* The completion check of line 227 left out.
CtEnrollment_AnyProgress(r) ==
  /\ ct[r].pc = "enrollment"
  /\ LET hit == EnrollmentRows(enrollments, ct[r].userId, ct[r].courseId) IN
     ct' = [ct EXCEPT ![r] =
          IF Cardinality(hit) # 1 THEN CtThrow(ct[r], "Enrollment not found")
          ELSE [ct[r] EXCEPT !.pc = "existing"]]
  /\ UNCHANGED <<serverKey, now, payments, enrollments, charges, cp, wh, redelivered,
                 certificates>>

\* Lines 215-229: the caller's enrollment in the course, selected with
\* .single(), must exist and carry progress 100 or more.
CtEnrollment(r) ==
  /\ ct[r].pc = "enrollment"
  /\ LET hit == EnrollmentRows(enrollments, ct[r].userId, ct[r].courseId) IN
     ct' = [ct EXCEPT ![r] =
          IF Cardinality(hit) # 1 THEN CtThrow(ct[r], "Enrollment not found")
          ELSE IF enrollments[CHOOSE i \in hit : TRUE].progress < 100
               THEN CtThrow(ct[r], "Course not completed yet")
          ELSE [ct[r] EXCEPT !.pc = "existing"]]
  /\ UNCHANGED <<serverKey, now, payments, enrollments, charges, cp, wh, redelivered,
                 certificates>>

\* Lines 231-248: the caller's certificate for the course, selected with
\* .maybeSingle(); when exactly one row matches it is returned.
CtExisting(r) ==
  /\ ct[r].pc = "existing"
  /\ LET hit == CertificateRows(certificates, ct[r].userId, ct[r].courseId) IN
     ct' = [ct EXCEPT ![r] =
          IF Cardinality(hit) = 1 THEN CtDone(ct[r], 200, "Certificate already exists")
          ELSE [ct[r] EXCEPT !.pc = "insert"]]
  /\ UNCHANGED <<serverKey, now, payments, enrollments, charges, cp, wh, redelivered,
                 certificates>>

\* Lines 250-309: number the certificate and insert its row.
CtInsert(r) ==
  /\ ct[r].pc = "insert"
  /\ Len(certificates) < MaxCertificates
  /\ certificates' = Append(certificates,
                       [user_id |-> ct[r].userId, course_id |-> ct[r].courseId,
                        certificate_number |-> CertificateNumberOf(certificates)])
  /\ ct' = [ct EXCEPT ![r] = CtDone(ct[r], 200, SuccessBody)]
  /\ UNCHANGED <<serverKey, now, payments, enrollments, charges, cp, wh, redelivered>>

\* The response has been sent.
CtReturn(r) ==
  /\ ct[r].pc = "done"
  /\ ct' = [ct EXCEPT ![r] = CtIdle]
  /\ UNCHANGED <<serverKey, now, payments, enrollments, charges, cp, wh, redelivered,
                 certificates>>

\* The enrollments table with the paid course's enrollment of each enrolled
\* account at its completion percentage.
EnrollmentsAt(enrolled, progressOf) ==
  LET rowOf(u) == IF u.id \notin enrolled THEN <<>>
                  ELSE <<[user_id |-> u.id, course_id |-> CoursePaid.id,
                          progress |-> progressOf[u.id]]>>
  IN rowOf(User1) \o rowOf(User2)

InitCert ==
  /\ serverKey = ServerSecret
  /\ now = 0
  /\ payments = <<>>
  /\ \E enrolled \in SUBSET {u.id : u \in Users},
        progressOf \in [{u.id : u \in Users} -> Progresses] :
       enrollments = EnrollmentsAt(enrolled, progressOf)
  /\ charges = <<>>
  /\ cp = [c \in Callers |-> CpIdle]
  /\ wh = [h \in Handlers |-> WhIdle]
  /\ redelivered = NoNotification
  /\ certificates = <<>>
  /\ ct = [r \in CertCallers |-> CtIdle]

NextCert ==
  \E r \in CertCallers :
    \/ \E req \in CertRequests : CtReceive(r, req)
    \/ CtCheck(r)
    \/ CtEnrollment(r)
    \/ CtExisting(r)
    \/ CtInsert(r)
    \/ CtReturn(r)

SpecCert == InitCert /\ [][NextCert]_vars

\* ------------------------------------------- create-payment specification
InitPay ==
  /\ serverKey = ServerSecret
  /\ now = 0
  /\ payments = <<>>
  /\ enrollments = <<>>
  /\ charges = <<>>
  /\ cp = [c \in Callers |-> CpIdle]
  /\ wh = [h \in Handlers |-> WhIdle]
  /\ redelivered = NoNotification
  /\ certificates = <<>>
  /\ ct = [r \in CertCallers |-> CtIdle]

NextPay ==
  \/ Tick
  \/ \E c \in Callers :
       \/ \E req \in Requests : CpReceive(c, req)
       \/ CpCheck(c)
       \/ CpInsert(c)
       \/ CpCharge(c)
       \/ CpEnrich(c)
       \/ CpReturn(c)

SpecPay == InitPay /\ [][NextPay]_vars

\* ------------------------------------------------ webhook specification
Init ==
  /\ serverKey \in {Null, ServerSecret}
  /\ \E k \in 1..MaxIntents : payments = StoreOf(k) /\ now = k
  /\ enrollments = <<>>
  /\ charges = <<>>
  /\ cp = [c \in Callers |-> CpIdle]
  /\ wh = [h \in Handlers |-> WhIdle]
  /\ redelivered = NoNotification
  /\ certificates = <<>>
  /\ ct = [r \in CertCallers |-> CtIdle]

\* One worker takes the notifications one after another.
Next ==
  \E h \in {"h1"} :
    \/ \E n \in Notifications : WhReceive(h, n)
    \/ WhMalformed(h)
    \/ WhVerify(h)
    \/ WhUpdate(h)
    \/ WhEnroll(h)
    \/ WhReturn(h)

Spec == Init /\ [][Next]_vars

\* ------------------------------------- duplicate-delivery specification
SettleSignal(t, f) == t = "settlement" \/ (t = "capture" /\ f = "accept")

SignedBy(n, key) ==
  n.signature_key = Sha512Hex(n.order_id \o n.status_code \o n.gross_amount \o key)

EnrollmentOf(row) ==
  [user_id |-> row.user_id, course_id |-> row.course_id, progress |-> 0]

RECURSIVE EnrollmentsFor(_, _)
\* The enrollments the settled rows 1..k of a store have produced.
EnrollmentsFor(table, k) ==
  IF k = 0 THEN <<>>
  ELSE LET before == EnrollmentsFor(table, k - 1) IN
       IF table[k].status = "settlement"
       THEN EnrollmentsInsert(before, EnrollmentOf(table[k])).table
       ELSE before

\* The gateway delivers one settlement-causing notification twice; the other
\* intents of the store are pending or have been settled earlier.
InitDup ==
  /\ serverKey = ServerSecret
  /\ redelivered \in {n \in Notifications :
        /\ SignedBy(n, ServerSecret)
        /\ SettleSignal(n.transaction_status, n.fraud_status)
        /\ n.order_id \in KnownOrderIds}
  /\ \E settled \in SUBSET (1..MaxIntents) :
        /\ \A i \in settled : IntentRow(i).midtrans_order_id # redelivered.order_id
        /\ payments = [i \in 1..MaxIntents |->
              IF i \in settled THEN [IntentRow(i) EXCEPT !.status = "settlement"]
              ELSE IntentRow(i)]
  /\ enrollments = EnrollmentsFor(payments, MaxIntents)
  /\ now = MaxIntents
  /\ charges = <<>>
  /\ cp = [c \in Callers |-> CpIdle]
  /\ wh = [h \in Handlers |-> WhIdle]
  /\ certificates = <<>>
  /\ ct = [r \in CertCallers |-> CtIdle]

NextDup ==
  \E h \in Handlers :
    \/ WhReceive(h, redelivered)
    \/ WhVerify(h)
    \/ WhUpdate(h)
    \/ WhEnroll(h)

SpecDup == InitDup /\ [][NextDup]_vars

\* ------------------------------------------- stop between update and insert
\* The gateway delivers one settlement-causing notification repeatedly; a
\* worker may be terminated between its two writes, and the gateway's next
\* delivery is taken by another worker.
NextStop ==
  \E h \in Handlers :
    \/ WhReceive(h, redelivered)
    \/ WhVerify(h)
    \/ WhUpdate(h)
    \/ WhStop(h)
    \/ WhEnroll(h)

SpecStop == InitDup /\ [][NextStop]_vars

\* --------------------------------- create-payment and webhook together
\* The first account asks for the paid course, at its price or below it.
RequestsAll ==
  {req \in Requests : /\ req.auth = <<"Bearer ">> \o TokenOf(User1)
                      /\ req.courseId = CoursePaid.id
                      /\ req.amount > 0}

\* The gateway's notifications: correctly signed over the charged amount, for
\* any order id, reporting a settlement, an expiry or a pending transaction.
NotificationsAll ==
  {n \in Notifications : /\ SignedBy(n, ServerSecret)
                         /\ n.gross_amount = Dec(CoursePaid.price) \o <<".00">>
                         /\ n.fraud_status = "accept"
                         /\ n.transaction_status \in {"settlement", "expire", "pending"}}

\* Calls of create-payment and deliveries to the webhook interleave on one
\* store.
NextAll ==
  \/ Tick
  \/ \E c \in Callers :
       \/ \E req \in RequestsAll : CpReceive(c, req)
       \/ CpCheck(c)
       \/ CpInsert(c)
       \/ CpCharge(c)
       \/ CpEnrich(c)
       \/ CpReturn(c)
  \/ \E h \in {"h1"} :
       \/ \E n \in NotificationsAll : WhReceive(h, n)
       \/ WhVerify(h)
       \/ WhUpdate(h)
       \/ WhEnroll(h)
       \/ WhReturn(h)

SpecAll == InitPay /\ [][NextAll]_vars

\* ------------------------------------------- webhook over a failing store
\* One worker takes the notifications one after another; the store may
\* refuse an enrollment insert.
NextRefuse ==
  \E h \in {"h1"} :
    \/ \E n \in Notifications : WhReceive(h, n)
    \/ WhMalformed(h)
    \/ WhVerify(h)
    \/ WhUpdate(h)
    \/ WhEnroll(h)
    \/ WhEnrollRefused(h)
    \/ WhReturn(h)

SpecRefuse == Init /\ [][NextRefuse]_vars

\* ------------------------------------------------------- webhook claims
RowOf(orderId) == payments[CHOOSE i \in RowsByOrderId(payments, orderId) : TRUE]

\* A handler checks a notification that carries the digest under the
\* configured server secret.
Accepts(h) ==
  WhVerify(h) /\ serverKey = ServerSecret /\ SignedBy(wh[h].notification, ServerSecret)

\* The notification passes the signature check and its fields become the
\* handler's locals.
Taken(h) ==
  /\ wh'[h].pc = "update"
  /\ wh'[h].orderId = wh[h].notification.order_id
  /\ wh'[h].transactionStatus = wh[h].notification.transaction_status
  /\ wh'[h].fraudStatus = wh[h].notification.fraud_status

\* C1: a payment whose status is settlement or failed keeps that status in
\* every step, whatever correctly signed notification is handled.
C1_TerminalAbsorbing ==
  [][\A i \in DOMAIN payments :
       payments[i].status \in {"settlement", "failed"}
         => payments'[i].status = payments[i].status]_vars

\* C2: handling a notification whose signature_key is not the SHA-512 digest of
\* order_id+status_code+gross_amount+server secret ends the request at once with
\* 401 and leaves payments and enrollments as they were.
C2_BadSignatureRejected ==
  [][\A h \in Handlers :
       (WhVerify(h) /\ ~SignedBy(wh[h].notification, ServerSecret)) =>
          /\ UNCHANGED <<payments, enrollments>>
          /\ wh'[h].pc = "done"
          /\ (serverKey = ServerSecret => wh'[h].resp.status = 401)]_vars

C2_Witness ==
  \E h \in Handlers :
    wh[h].pc = "done" /\ wh[h].resp = Response(401, "Invalid signature")

\* C3: when both deliveries of the same settlement-causing notification have
\* been answered, the intent is settlement, exactly one enrollment exists for
\* its (user, course), and both answers are success.
C3_DuplicateDelivery ==
  (\A h \in Handlers : wh[h].pc = "done") =>
     LET row == RowOf(redelivered.order_id) IN
     /\ row.status = "settlement"
     /\ Cardinality(EnrollmentRows(enrollments, row.user_id, row.course_id)) = 1
     /\ \A h \in Handlers : wh[h].resp = Response(200, SuccessBody)

C3_Witness ==
  /\ \A h \in Handlers : wh[h].pc = "done" /\ wh[h].resp.status = 200
  /\ LET row == RowOf(redelivered.order_id) IN
       EnrollmentRows(enrollments, row.user_id, row.course_id) # {}

\* C4: a correctly signed settlement, or capture with fraud accept, for a pending
\* intent sets its status to settlement, and the insert that follows leaves
\* exactly one enrollment for the intent's (user, course), with progress 0.
C4_SettlementGrantsEnrollment ==
  /\ [][\A h \in Handlers :
          (Accepts(h) /\ SettleSignal(wh[h].notification.transaction_status,
                                      wh[h].notification.fraud_status))
             => (Taken(h) /\ wh'[h].paymentStatus = "settlement")]_vars
  /\ [][\A h \in Handlers :
          (/\ WhUpdate(h)
           /\ SettleSignal(wh[h].transactionStatus, wh[h].fraudStatus)
           /\ RowsByOrderId(payments, wh[h].orderId) # {}
           /\ RowOf(wh[h].orderId).status = "pending")
             => LET i == CHOOSE j \in RowsByOrderId(payments, wh[h].orderId) : TRUE IN
                /\ payments'[i].status = "settlement"
                /\ wh'[h].pc = "enroll"
                /\ wh'[h].payment.user_id = payments[i].user_id
                /\ wh'[h].payment.course_id = payments[i].course_id]_vars
  /\ [][\A h \in Handlers :
          WhEnroll(h)
             => LET rows == EnrollmentRows(enrollments', wh[h].payment.user_id,
                                           wh[h].payment.course_id) IN
                /\ Cardinality(rows) = 1
                /\ \A i \in rows : enrollments'[i].progress = 0
                /\ wh'[h].resp = Response(200, SuccessBody)]_vars

C4_Witness ==
  \E h \in Handlers :
    /\ wh[h].pc = "done" /\ wh[h].resp.status = 200
    /\ wh[h].transactionStatus = "capture" /\ wh[h].fraudStatus = "accept"
    /\ RowOf(wh[h].orderId).status = "settlement"
    /\ Cardinality(EnrollmentRows(enrollments, wh[h].payment.user_id,
                                  wh[h].payment.course_id)) = 1

\* C5: a correctly signed cancel, deny or expire for a pending intent sets its
\* status to failed, answers success and inserts no enrollment.
C5_FailureSignals ==
  /\ [][\A h \in Handlers :
          (Accepts(h) /\ wh[h].notification.transaction_status \in {"cancel", "deny", "expire"})
             => (Taken(h) /\ wh'[h].paymentStatus = "failed")]_vars
  /\ [][\A h \in Handlers :
          (/\ WhUpdate(h)
           /\ wh[h].transactionStatus \in {"cancel", "deny", "expire"}
           /\ RowsByOrderId(payments, wh[h].orderId) # {}
           /\ RowOf(wh[h].orderId).status = "pending")
             => LET i == CHOOSE j \in RowsByOrderId(payments, wh[h].orderId) : TRUE IN
                /\ payments'[i].status = "failed"
                /\ wh'[h].pc = "done"
                /\ enrollments' = enrollments]_vars

C5_Witness ==
  \E h \in Handlers :
    /\ wh[h].pc = "done" /\ wh[h].resp.status = 200
    /\ wh[h].transactionStatus = "expire"
    /\ RowOf(wh[h].orderId).status = "failed"
    /\ enrollments = <<>>

\* C6: a correctly signed capture whose fraud status is not accept leaves a
\* pending intent pending and inserts no enrollment.
C6_CaptureNotAccepted ==
  /\ [][\A h \in Handlers :
          (/\ Accepts(h)
           /\ wh[h].notification.transaction_status = "capture"
           /\ wh[h].notification.fraud_status # "accept")
             => (Taken(h) /\ wh'[h].paymentStatus = "pending")]_vars
  /\ [][\A h \in Handlers :
          (/\ WhUpdate(h)
           /\ wh[h].transactionStatus = "capture" /\ wh[h].fraudStatus # "accept"
           /\ RowsByOrderId(payments, wh[h].orderId) # {}
           /\ RowOf(wh[h].orderId).status = "pending")
             => /\ payments' = payments
                /\ wh'[h].pc = "done"
                /\ enrollments' = enrollments]_vars

C6_Witness ==
  \E h \in Handlers :
    /\ wh[h].pc = "done" /\ wh[h].resp.status = 200
    /\ wh[h].transactionStatus = "capture" /\ wh[h].fraudStatus # "accept"
    /\ RowOf(wh[h].orderId).status = "pending"
    /\ enrollments = <<>>

\* C7: a correctly signed notification whose order_id matches no payment is
\* answered with an error, and payments and enrollments stay as they were.
C7_UnknownOrder ==
  /\ [][\A h \in Handlers : Accepts(h) => Taken(h)]_vars
  /\ [][\A h \in Handlers :
          (WhUpdate(h) /\ RowsByOrderId(payments, wh[h].orderId) = {})
             => /\ UNCHANGED <<payments, enrollments>>
                /\ wh'[h].pc = "done"
                /\ wh'[h].resp.status = 400
                /\ wh'[h].resp.body # SuccessBody]_vars

C7_Witness ==
  \E h \in Handlers :
    /\ wh[h].pc = "done" /\ wh[h].orderId = UnknownOrderId
    /\ wh[h].resp = Response(400, "Failed to update payment")
    /\ \A i \in DOMAIN payments : payments[i].status = "pending"

\* C10: a notification without signature_key is answered with 401 in every
\* configuration, the server secret missing included.
C10_MissingSignatureFirst ==
  [][\A h \in Handlers :
       (WhVerify(h) /\ wh[h].notification.signature_key = Null)
          => wh'[h].resp.status = 401]_vars

\* -------------------------------------------------- create-payment claims
CourseOf(courseId) == CHOOSE k \in Courses : k.id = courseId

\* C8: a call that names a course not marked free with an amount other than its
\* price ends without a payments insert and without a charge request; when its
\* credential resolves and the amount is positive the answer is the
\* price-mismatch message.
C8_PriceMismatchRejected ==
  [][\A c \in Callers :
       LET req == cp[c].request IN
       (/\ CpCheck(c)
        /\ \E k \in Courses : k.id = req.courseId
        /\ ~CourseOf(req.courseId).is_free
        /\ req.amount # CourseOf(req.courseId).price)
          => /\ cp'[c].pc = "done"
             /\ cp'[c].resp.status = 400
             /\ UNCHANGED <<payments, charges>>
             /\ (\E u \in Users : req.auth = <<"Bearer ">> \o TokenOf(u)) /\ req.amount > 0
                  => cp'[c].resp.body = "The payment amount does not match the course price."]_vars

C8_Witness ==
  \E c \in Callers :
    /\ cp[c].pc = "done"
    /\ cp[c].request.courseId = CoursePaid.id
    /\ cp[c].request.amount \notin {0, CoursePaid.price}
    /\ cp[c].resp = Response(400, "The payment amount does not match the course price.")
    /\ payments = <<>> /\ charges = <<>>

\* C9: the order id a call generates is the order id of no payment another call
\* has stored, and no two payments share an order id.
C9_FreshOrderId ==
  /\ \A c \in Callers :
       cp[c].pc = "insert" => RowsByOrderId(payments, cp[c].orderId) = {}
  /\ \A i, j \in DOMAIN payments :
       i # j => payments[i].midtrans_order_id # payments[j].midtrans_order_id

\* C11: with no server secret configured every notification is refused: the
\* check step ends the request without a success answer and without a write,
\* a notification that carries a signature_key is answered with 500, and no
\* payment leaves pending and no enrollment exists in such a configuration.
C11_MisconfiguredRejectsAll ==
  /\ [][\A h \in Handlers :
          (WhVerify(h) /\ serverKey = Null)
             => /\ wh'[h].pc = "done"
                /\ wh'[h].resp.status # 200
                /\ UNCHANGED <<payments, enrollments>>
                /\ (wh[h].notification.signature_key # Null
                      => wh'[h].resp = Response(500, "Server configuration error"))]_vars
  /\ [](serverKey = Null
          => /\ enrollments = <<>>
             /\ \A i \in DOMAIN payments : payments[i].status = "pending")

C11_Witness ==
  \E h \in Handlers :
    /\ serverKey = Null
    /\ wh[h].pc = "done" /\ wh[h].resp.status = 500
    /\ SignedBy(wh[h].notification, ServerSecret)
    /\ SettleSignal(wh[h].notification.transaction_status, wh[h].notification.fraud_status)

\* C12: when a worker has stopped after writing status settlement and before
\* inserting the enrollment, a delivery of the same notification that another
\* worker has answered was accepted (200), the enrollment of the payment's
\* account in its course exists, and the payment's status is settlement.
C12_RedeliveryRecovers ==
  \A h \in Handlers, g \in Handlers :
    (wh[h].pc = "stopped" /\ wh[g].pc = "done")
       => /\ wh[g].resp = Response(200, SuccessBody)
          /\ RowOf(redelivered.order_id).status = "settlement"
          /\ EnrollmentRows(enrollments, RowOf(redelivered.order_id).user_id,
                            RowOf(redelivered.order_id).course_id) # {}

\* One worker has stopped between its two writes, the other has answered a
\* delivery of the same notification, and the enrollment exists.
C12_Witness ==
  /\ wh["h1"].pc = "stopped"
  /\ wh["h2"].pc = "done"
  /\ wh["h2"].resp = Response(200, SuccessBody)
  /\ RowOf(redelivered.order_id).status = "settlement"
  /\ EnrollmentRows(enrollments, wh["h2"].payment.user_id,
                    wh["h2"].payment.course_id) # {}

\* ------------------------------------------------ create-payment claims
\* The payment a call has persisted.
RowById(id) == payments[CHOOSE i \in DOMAIN payments : payments[i].id = id]

GatewayUnavailableMessage ==
  "Payment provider is temporarily unavailable. Please try again later."

\* C13: a charge step that ends the call (the gateway call failed) answers with
\* the provider-unavailable error, and the payment the call persisted is still
\* in the store, pending, with no transaction id and no payment type.
C13_GatewayFailure ==
  [][\A c \in Callers :
       (CpCharge(c) /\ cp'[c].pc = "done")
          => /\ cp'[c].resp = Response(400, GatewayUnavailableMessage)
             /\ \E i \in DOMAIN payments' :
                  /\ payments'[i].id = cp[c].paymentId
                  /\ payments'[i].status = "pending"
                  /\ payments'[i].midtrans_transaction_id = Null
                  /\ payments'[i].payment_type = ""]_vars

\* C14: a step adds at most one charge request and only the charge step of a
\* call adds one; a call about to send its charge request has sent none for its
\* order id, and after its charge step it sends no other; no two charge
\* requests carry the same order id.
C14_OneChargePerCall ==
  /\ [][/\ Len(charges') <= Len(charges) + 1
        /\ SubSeq(charges', 1, Len(charges)) = charges
        /\ (charges' # charges => \E c \in Callers : CpCharge(c))
        /\ \A c \in Callers : CpCharge(c) => cp'[c].pc \in {"enrich", "done"}]_vars
  /\ [](\A c \in Callers :
          cp[c].pc = "charge"
            => \A i \in DOMAIN charges : charges[i].order_id # cp[c].orderId)
  /\ [](\A i \in DOMAIN charges, j \in DOMAIN charges :
          i # j => charges[i].order_id # charges[j].order_id)

C14_Witness ==
  /\ Len(charges) = 2
  /\ charges[1].accepted
  /\ ~charges[2].accepted
  /\ \E c \in Callers : cp[c].pc = "done" /\ cp[c].orderId = charges[2].order_id

\* C15: when the gateway accepted the charge and the update that records the
\* transaction on the payment is not stored, the call still answers with
\* success, its answer carries the payment URL, the order id and the
\* transaction id, and the payment stays pending.
C15_EnrichmentFailureIsSuccess ==
  [][\A c \in Callers :
       (CpEnrich(c) /\ payments' = payments)
          => /\ cp'[c].pc = "done"
             /\ cp'[c].resp = Response(200, SuccessBody)
             /\ CpSuccessBody(cp'[c]).order_id = RowById(cp[c].paymentId).midtrans_order_id
             /\ CpSuccessBody(cp'[c]).transaction_id = TransactionIdOf(cp[c].orderId)
             /\ CpSuccessBody(cp'[c]).payment_url # Null
             /\ \E i \in DOMAIN payments' :
                  payments'[i].id = cp[c].paymentId /\ payments'[i].status = "pending"]_vars

C15_Witness ==
  \E c \in Callers :
    /\ cp[c].pc = "done"
    /\ cp[c].resp = Response(200, SuccessBody)
    /\ RowById(cp[c].paymentId).midtrans_transaction_id = Null
    /\ RowById(cp[c].paymentId).status = "pending"
    /\ \E i \in DOMAIN charges :
         charges[i].order_id = cp[c].orderId /\ charges[i].accepted

\* C19: a call that fails at the credential, at the validation of the body or
\* at the course lookup ends there, with no payment persisted and no charge
\* request sent; the credential is checked first, then the body, then the
\* course.
NoCredential(req) == req.auth = Null \/ GetUser(StripBearer(req.auth)) = {}

InvalidBody(req) == ~IsUuid(req.courseId) \/ req.amount <= 0

NoCourse(req) == \A k \in Courses : k.id # req.courseId

C19_EarlyFailures ==
  /\ [][\A c \in Callers :
          CpCheck(c) =>
            LET req == cp[c].request IN
            /\ UNCHANGED <<payments, charges>>
            /\ NoCredential(req)
                 => cp'[c].resp = Response(400, "Authentication required. Please log in.")
            /\ (~NoCredential(req) /\ InvalidBody(req))
                 => /\ cp'[c].resp.status = 400
                    /\ cp'[c].resp.body
                         \in {"Invalid course ID format", "Amount must be positive"}
            /\ (~NoCredential(req) /\ ~InvalidBody(req) /\ NoCourse(req))
                 => cp'[c].resp = Response(400,
                      "The selected course does not exist or is not available.")
            /\ (NoCredential(req) \/ InvalidBody(req) \/ NoCourse(req))
                 => cp'[c].pc = "done"]_vars
  /\ [](\A c \in Callers :
          LET req == cp[c].request IN
          (cp[c].pc \notin {"idle", "check"}
             /\ (NoCredential(req) \/ InvalidBody(req) \/ NoCourse(req)))
            => /\ cp[c].pc = "done"
               /\ cp[c].paymentId = 0
               /\ cp[c].orderId = Null)

\* A request without credential whose body is invalid as well is answered
\* with the authentication error.
C19_Witness ==
  \E c \in Callers :
    /\ cp[c].pc = "done"
    /\ cp[c].request.auth = <<"Bearer ">> \o BadToken
    /\ cp[c].request.courseId = MalformedCourseId
    /\ cp[c].request.amount = 0
    /\ cp[c].resp = Response(400, "Authentication required. Please log in.")
    /\ payments # <<>>

\* ------------------------------------------------------ client messages
\* The messages written for the client: the values of create-payment's
\* mapping table with its default, the messages of its request schema, and the
\* literal answers of the webhook's checks.
UserFacingMessages ==
  {getUserMessage(m) : m \in {"Missing authorization header", "Unauthorized",
                              "Missing required fields", "Course not found",
                              "Price mismatch", "Failed to create payment record",
                              "Failed to create Midtrans transaction"}}
    \cup {DefaultUserMessage}
    \cup {"Invalid course ID format", "Amount must be positive", "Amount must be at least 1"}
    \cup {"Server configuration error", "Invalid request", "Invalid signature"}

\* C16: the message of every failure answer, of create-payment and of the
\* webhook, is one of the fixed user-facing messages; the message of a thrown
\* error is never the answer.
C16_ClientMessagesFixed ==
  /\ \A c \in Callers :
       (cp[c].pc = "done" /\ cp[c].resp.status # 200)
          => cp[c].resp.body \in UserFacingMessages
  /\ \A h \in Handlers :
       (wh[h].pc = "done" /\ wh[h].resp.status # 200)
          => wh[h].resp.body \in UserFacingMessages

\* C18: what the webhook does with a correctly signed notification is fixed by
\* the notification's order_id, transaction_status and fraud_status and by the
\* store: the check passes whatever gross_amount was signed, the status
\* written, the answer and the enrollment inserted are those of the order's
\* payment and the two status fields, also when gross_amount is not the stored
\* amount.
C18_AmountIndependent ==
  [][\A h \in Handlers :
       LET n == wh[h].notification
           r == PaymentsUpdateStatus(payments, n.order_id,
                                     PaymentStatusOf(n.transaction_status, n.fraud_status))
       IN
       /\ Accepts(h) => Taken(h)
       /\ WhUpdate(h)
            => /\ payments' = r.table
               /\ r.error => wh'[h].resp.status = 400
               /\ ~r.error
                    => IF SettleSignal(n.transaction_status, n.fraud_status)
                       THEN wh'[h].pc = "enroll"
                       ELSE wh'[h].resp = Response(200, SuccessBody)
       /\ WhEnroll(h)
            => /\ enrollments' =
                    EnrollmentsInsert(enrollments, EnrollmentOf(RowOf(n.order_id))).table
               /\ wh'[h].resp = Response(200, SuccessBody)]_vars

\* A settlement notification signed over an amount that is not the stored
\* one has been accepted: the payment is settled and the enrollment exists.
C18_Witness ==
  \E h \in Handlers :
    /\ wh[h].pc = "done"
    /\ wh[h].resp = Response(200, SuccessBody)
    /\ SignedBy(wh[h].notification, ServerSecret)
    /\ wh[h].notification.gross_amount # Dec(wh[h].payment.amount) \o <<".00">>
    /\ RowOf(wh[h].notification.order_id).status = "settlement"
    /\ EnrollmentRows(enrollments, wh[h].payment.user_id, wh[h].payment.course_id) # {}

\* C17: in every step of create-payment calls and webhook deliveries the
\* payments already stored keep their id, user_id, course_id, amount and
\* midtrans_order_id and none is removed, a payment that appears is pending,
\* and a status changes only in the webhook's update step.
C17_IntentFrame ==
  [][/\ Len(payments') >= Len(payments)
     /\ \A i \in DOMAIN payments :
          /\ payments'[i].id = payments[i].id
          /\ payments'[i].user_id = payments[i].user_id
          /\ payments'[i].course_id = payments[i].course_id
          /\ payments'[i].amount = payments[i].amount
          /\ payments'[i].midtrans_order_id = payments[i].midtrans_order_id
          /\ payments'[i].status # payments[i].status => \E h \in Handlers : WhUpdate(h)
     /\ \A i \in DOMAIN payments' \ DOMAIN payments :
          payments'[i].status = "pending"]_vars

\* Two calls have created a payment each; the webhook has settled the first,
\* which carries the gateway's transaction, and has failed the second.
C17_Witness ==
  /\ Len(payments) = 2
  /\ payments[1].status = "settlement"
  /\ payments[1].midtrans_transaction_id # Null
  /\ payments[2].status = "failed"
  /\ enrollments # <<>>

\* ------------------------------------------------------ certificate claims
Completed(userId, courseId) ==
  \E i \in EnrollmentRows(enrollments, userId, courseId) : enrollments[i].progress >= 100

\* C20: a certificate is inserted only while the enrollment of its account in
\* its course exists with progress 100 or more, every stored certificate has
\* such an enrollment, and a request of an account without enrollment or with
\* progress below 100 ends at the enrollment check with an error and no
\* certificate.
C20_CertificateNeedsCompletion ==
  /\ [][\A i \in DOMAIN certificates' \ DOMAIN certificates :
          Completed(certificates'[i].user_id, certificates'[i].course_id)]_vars
  /\ [][\A r \in CertCallers :
          (CtEnrollment(r) /\ ~Completed(ct[r].userId, ct[r].courseId))
             => /\ ct'[r].pc = "done"
                /\ ct'[r].resp.status = 400
                /\ certificates' = certificates]_vars
  /\ [](\A i \in DOMAIN certificates :
          Completed(certificates[i].user_id, certificates[i].course_id))
  /\ [](\A r \in CertCallers :
          ct[r].pc \in {"existing", "insert"} => Completed(ct[r].userId, ct[r].courseId))

\* One account holds a certificate; the other, at progress 99, has been
\* refused.
C20_Witness ==
  /\ \E i \in DOMAIN certificates : certificates[i].user_id = User1.id
  /\ \E r \in CertCallers :
       /\ ct[r].pc = "done"
       /\ ct[r].userId = User2.id
       /\ \E i \in EnrollmentRows(enrollments, User2.id, CoursePaid.id) :
            enrollments[i].progress = 99
       /\ ct[r].resp = Response(400, CtUserMessage("Course not completed yet"))
       /\ CertificateRows(certificates, User2.id, CoursePaid.id) = {}

\* ------------------------------------------ enrollment and payment status
\* C21: every enrollment the webhook has inserted belongs to an account and a
\* course for which some payment has status settlement, whatever correctly
\* signed notifications have been handled and in whatever order.
C21_EnrollmentHasSettledPayment ==
  \A e \in DOMAIN enrollments :
    \E i \in DOMAIN payments :
      /\ payments[i].user_id = enrollments[e].user_id
      /\ payments[i].course_id = enrollments[e].course_id
      /\ payments[i].status = "settlement"

\* ------------------------------------------------------- status written
\* The five gateway statuses the mapping of lines 81-91 names.
MappedStatuses == {"capture", "settlement", "cancel", "deny", "expire"}

\* C24: the status the update step writes to the order's payment is fixed by
\* the notification's transaction_status and fraud_status, whatever status the
\* payment has: settlement for settlement and for capture with accept, failed
\* for cancel, deny and expire, pending otherwise; a correctly signed
\* notification with a transaction_status outside the five mapped ones
\* writes pending, inserts no enrollment and is answered with success.
C24_StatusFromNotificationOnly ==
  [][\A h \in Handlers :
       LET n == wh[h].notification
           hit == RowsByOrderId(payments, n.order_id)
       IN
       (WhUpdate(h) /\ hit # {})
          => /\ \A i \in hit :
                  payments'[i].status =
                    IF n.transaction_status = "settlement"
                       \/ (n.transaction_status = "capture" /\ n.fraud_status = "accept")
                    THEN "settlement"
                    ELSE IF n.transaction_status \in {"cancel", "deny", "expire"}
                    THEN "failed"
                    ELSE "pending"
             /\ n.transaction_status \notin MappedStatuses
                  => /\ \A i \in hit : payments'[i].status = "pending"
                     /\ enrollments' = enrollments
                     /\ wh'[h].resp = Response(200, SuccessBody)]_vars

\* A notification with transaction_status pending has been answered with
\* success for a payment whose account holds the enrollment of an earlier
\* settlement: the payment is pending.
C24_Witness ==
  \E h \in Handlers :
    /\ wh[h].pc = "done"
    /\ wh[h].resp = Response(200, SuccessBody)
    /\ wh[h].notification.transaction_status \notin MappedStatuses
    /\ RowOf(wh[h].notification.order_id).status = "pending"
    /\ \A i \in DOMAIN payments : payments[i].status = "pending"
    /\ EnrollmentRows(enrollments, wh[h].payment.user_id, wh[h].payment.course_id) # {}

\* ------------------------------------------------- row before charge
\* C23: a call sends its charge request only after its payment has been
\* persisted: a call about to send the request has its pending row in the
\* store, and every order id the gateway has received a charge request for is
\* the midtrans_order_id of a stored payment.
C23_RowBeforeCharge ==
  /\ \A c \in Callers :
       cp[c].pc = "charge"
         => \E i \in DOMAIN payments :
              /\ payments[i].id = cp[c].paymentId
              /\ payments[i].midtrans_order_id = cp[c].orderId
  /\ \A k \in DOMAIN charges : RowsByOrderId(payments, charges[k].order_id) # {}

\* The gateway has received a charge request and rejected it; the call has
\* failed and its payment is in the store.
C23_Witness ==
  /\ Len(charges) = 1
  /\ ~charges[1].accepted
  /\ Len(payments) = 1
  /\ payments[1].midtrans_order_id = charges[1].order_id
  /\ \E c \in Callers : cp[c].pc = "done" /\ cp[c].resp.status = 400

\* ---------------------------------------------- success means enrolled
\* C22: when the webhook has answered success to a correctly signed
\* notification that maps to settlement, the enrollment of the payment's
\* account in its course is in the store, also when the store refused the
\* insert with an error that is no duplicate-key violation.
C22_SuccessMeansEnrolled ==
  \A h \in Handlers :
    (/\ wh[h].pc = "done"
     /\ wh[h].resp = Response(200, SuccessBody)
     /\ SignedBy(wh[h].notification, ServerSecret)
     /\ SettleSignal(wh[h].notification.transaction_status,
                     wh[h].notification.fraud_status))
       => EnrollmentRows(enrollments, wh[h].payment.user_id, wh[h].payment.course_id) # {}

\* C25: no two certificates carry the same account and course, however many
\* certificate requests have been handled and however two requests of one
\* account for one course interleave.
C25_OneCertificatePerPair ==
  \A i \in DOMAIN certificates, j \in DOMAIN certificates :
    (certificates[i].user_id = certificates[j].user_id
       /\ certificates[i].course_id = certificates[j].course_id) => i = j

====
